---- MODULE Spec2Model ----
(***************************************************************************)
(* Pickup-journey status tracking of the kidmate backend (src/app.py).     *)
(*                                                                         *)
(* The PickupJourney table (src/models.py) is an event log: every accepted *)
(* status change inserts one row.  The handlers create_journey,            *)
(* update_status, record_departure, get_status and the read-only journey   *)
(* queries are modelled from their code, together with the notification    *)
(* e-mail of update_status (src/email_service.py).  The specifications     *)
(* share the state:                                                        *)
(*   Spec      every request runs from its first query to its response in  *)
(*             one step (requests processed one at a time);                *)
(*   SpecAll   the same with the listing queries added, on a smaller table; *)
(*   SpecConc  update_status and record_departure are split at the point   *)
(*             where the code separates its reads from db.session.commit() *)
(*             (the Flask development server handles requests in threads); *)
(*   SpecRace  the threads of SpecConc on a single journey, followed long   *)
(*             enough for it to complete;                                  *)
(*   SpecParties  the requests of Spec made by every family.  The other    *)
(*             specifications follow the journeys of one family: the       *)
(*             handlers of the status flow never read the references to    *)
(*             parent, child and pickup person.                            *)
(*                                                                         *)
(* The timestamp column is a DATETIME filled by CURRENT_TIMESTAMP, so rows *)
(* inserted within the same clock second carry the same timestamp.  The    *)
(* query "ORDER BY timestamp DESC LIMIT 1" is then free to return any of   *)
(* the rows that share the greatest timestamp; the model keeps that choice *)
(* open.                                                                   *)
(***************************************************************************)
EXTENDS FiniteSets, Integers, Naturals, Sequences, TLC

\* ---- bounds ----
NumPickupIds == 2
MaxEvents == 5
MaxTime == 3
MaxConcEvents == 3
MaxAllEvents == 4
MaxRaceEvents == 6
MaxRaceTime == 2
MaxPartyEvents == 3
NumWorkers == 2

PickupIds == 1..NumPickupIds
Workers == 1..NumWorkers

\* ---- program constants ----
None == "none"

SEQUENTIAL_STATUS_FLOW ==
    [s \in {None, "pending", "departed", "picked", "arrived"} |->
        CASE s = None -> "pending"
          [] s = "pending" -> "departed"
          [] s = "departed" -> "picked"
          [] s = "picked" -> "arrived"
          [] s = "arrived" -> "completed"]

FINAL_STATUSES == {"completed", "cancelled"}

\* dict.get: the mapped value, None for a key the dict does not hold
FlowGet(s) ==
    IF s \in DOMAIN SEQUENTIAL_STATUS_FLOW THEN SEQUENTIAL_STATUS_FLOW[s] ELSE None

Statuses == {"pending", "departed", "picked", "arrived", "completed", "cancelled"}

\* status strings a request body may carry: the six known ones and one other
RequestStatuses == Statuses \cup {"delayed"}

\* ---- the users, parents, kids and pickup_persons tables (src/models.py) ----
\* The journey handlers read these tables and never write them, so the model
\* keeps one content of them.  users and parents number their rows
\* independently; link_parent_to_user (app.py 565-594) ties a parent to a user
\* by e-mail.  Here parent 1 is linked to user 1, parent 2 to user 3, and user 2
\* is linked to no parent.
User ==
    [id \in {1, 2, 3} |->
        [email |-> CASE id = 1 -> "ama@kidmate" [] id = 2 -> "kofi@kidmate" [] id = 3 -> "esi@kidmate"]]

Parent ==
    [id \in {1, 2} |-> [user_email |-> IF id = 1 THEN "ama@kidmate" ELSE "esi@kidmate"]]

\* kid 1 is a child of parent 1, kid 2 of parent 2
Kid == [id \in {1, 2} |-> [parent_id |-> id]]

\* pickup persons by uuid: P1 and P3 are registered for kid 1, P2 for kid 2;
\* toggle_pickup_person_status (app.py 1734-1778) has set P3 inactive
PickupPerson ==
    [uuid \in {"P1", "P2", "P3"} |->
        [kid_id |-> IF uuid = "P2" THEN 2 ELSE 1, is_active |-> uuid # "P3"]]

\* the address of the placeholder parent and of the monitoring copy
AdminEmail == "daviddors12@gmail.com"

\* the parent_id, child_id and pickup_person_id columns of a journey row, and
\* the same three fields in a request body (0 and None: the field is absent)
Refs(parent_id, child_id, pickup_person_id) ==
    [parent_id |-> parent_id, child_id |-> child_id, pickup_person_id |-> pickup_person_id]

NoRefs == Refs(0, 0, None)

\* a create_journey request: the JWT identity of the caller and the two body
\* fields that name the child and the pickup person
CreateRequest(caller, child_id, pickup_person_id) ==
    [caller |-> caller, child_id |-> child_id, pickup_person_id |-> pickup_person_id]

NoRequest == CreateRequest(None, 0, None)

\* every caller with every child_id (3: no such kid) and pickup_person_id
\* (P9: no such pickup person)
CreateRequests ==
    {CreateRequest(caller, child_id, pickup_person_id) :
        caller \in {"ama@kidmate", "kofi@kidmate", "esi@kidmate"},
        child_id \in {0, 1, 2, 3},
        pickup_person_id \in {None, "P1", "P2", "P3", "P9"}}

\* the requests of one family: parent 1 creating a journey of kid 1 with P1,
\* and one request for each check of the handler that can fail
OneFamily ==
    {CreateRequest("ama@kidmate", 1, "P1"), CreateRequest("kofi@kidmate", 1, "P1"),
     CreateRequest("ama@kidmate", 0, "P1"), CreateRequest("ama@kidmate", 2, "P1"),
     CreateRequest("ama@kidmate", 1, "P9")}

\* the party fields an update_status or record_departure body may carry
\* (src/test_email_debug.py 65-71 sends them): none, or those of another journey
Bodies == {NoRefs, Refs(2, 2, "P2"), Refs(1, 1, "P3")}

VARIABLES
    journeys,   \* the PickupJourney table in insertion (primary key) order
    now,        \* the database clock, in whole seconds
    resp,       \* the response of the request handled last
    inflight,   \* SpecConc: per worker thread, the request it handles and how far it got
    mail        \* the notification e-mail of the request answered last

vars == <<journeys, now, resp, inflight, mail>>

\* ---- responses ----
\* The request answered (op, pickup_id, status: the handler and the two body
\* fields) and the answer: the HTTP code, the error text, and the values the
\* text or the body carries (previous and expected status of an error,
\* timestamp of get_status, the 'journeys' list of the two listing handlers,
\* the request that create_journey answered).
Response(op, k, s, code, error, previous, expected, ts) ==
    [op |-> op, pickup_id |-> k, status |-> s, code |-> code, error |-> error,
     previous |-> previous, expected |-> expected, timestamp |-> ts, journeys |-> {},
     request |-> NoRequest]

NoResponse == Response("none", 0, None, 0, "", None, None, 0)

\* a worker thread: pc is "idle", "commit" (the reads and checks are done, the
\* insert and commit are still to come), "notify" (committed, the e-mail and
\* the answer are still to come) or "done" (committed and answered);
\* read is the id of the row its latest-entry query returned, refs the
\* references it took from the journey for its new row, row the id of the row
\* it inserted
Worker(pc, op, k, s, read, refs, row) ==
    [pc |-> pc, op |-> op, pickup_id |-> k, status |-> s, read |-> read, refs |-> refs,
     row |-> row]

Idle == Worker("idle", "none", 0, None, 0, NoRefs, 0)

\* ---- the notification e-mail (src/email_service.py) ----
\* The e-mail that update_status sends for the event (k, s) to the address
\* 'to' (None: no address was reached), and how far it got:
\*   "lookup_failed"   a query of app.py 317-386 raised; the except branch of
\*                     line 425 logged it, nothing was sent
\*   "missing_data"    the parent found has no e-mail address (line 388 false)
\*   "message_failed"  send_email could not build the Message and returned False
\*   "started"         send_email started the thread that runs send_async_email
\*   "sent", "send_failed"  mail.send returned, or raised, inside that thread
\* The copy for the monitoring address (app.py 405-416) takes the same path
\* right after the parent's and is not kept separately.
Mail(to, k, s, stage) == [to |-> to, pickup_id |-> k, status |-> s, stage |-> stage]

\* no notification: the request answered last sent none
NoMail == Mail(None, 0, None, "none")

\* a variant of send_email that joins its thread before it returns
send_email_joined(to, k, s, messageOk) ==
    IF messageOk THEN Mail(to, k, s, "sent") ELSE Mail(to, k, s, "message_failed")

\* EmailService.send_email (email_service.py 30-57): True and a started thread,
\* or False when building the Message raised
send_email(to, k, s, messageOk) ==
    IF messageOk THEN Mail(to, k, s, "started") ELSE Mail(to, k, s, "message_failed")

\* app.py 317-335: the account the notification is addressed to.  The
\* parent_id of the journey row (a parents id, written by create_journey as
\* str(parent.id)) is looked up as an id of the users table; when no user has
\* that id, a placeholder with the monitoring address stands in.
NotificationParent(parent_id) ==
    IF parent_id \in DOMAIN User THEN User[parent_id].email ELSE AdminEmail

\* app.py 308-430: the lookups, the test of line 386 and the call of
\* EmailService.send_journey_status_notification (email_service.py 262-362),
\* which formats the texts for any status string and calls send_email.
\* lookupOk: no query of lines 317-384 raised; haveEmail: the e-mail address
\* of the users row is not empty.
send_journey_status_notification(to, k, s, lookupOk, haveEmail, messageOk) ==
    IF ~lookupOk THEN Mail(None, k, s, "lookup_failed")
    ELSE IF ~haveEmail THEN Mail(None, k, s, "missing_data")
    ELSE send_email(to, k, s, messageOk)

\* the outcomes of the notification for (k, s) over all values of its inputs
Notifications(to, k, s) ==
    {send_journey_status_notification(to, k, s, lookupOk, haveEmail, messageOk) :
        lookupOk \in BOOLEAN, haveEmail \in BOOLEAN, messageOk \in BOOLEAN}

\* ---- queries on the table ----
RowsOf(k) == {i \in DOMAIN journeys : journeys[i].pickup_id = k}

\* a variant of the query without filter_by(pickup_id=k)
LatestEntryOfAll(k) ==
    IF RowsOf(k) = {} THEN {0}
    ELSE {i \in DOMAIN journeys :
            \A j \in DOMAIN journeys : journeys[j].timestamp <= journeys[i].timestamp}

\* filter_by(pickup_id=k).order_by(timestamp.desc()).first(): the ids of the
\* rows the query may return; {0} stands for "no row" (None)
LatestEntry(k) ==
    IF RowsOf(k) = {} THEN {0}
    ELSE {i \in RowsOf(k) :
            \A j \in RowsOf(k) : journeys[j].timestamp <= journeys[i].timestamp}

StatusOfEntry(e) == IF e = 0 THEN None ELSE journeys[e].status

\* a new row: the columns the handlers set, and the timestamp the database sets
PickupJourney(k, refs, s) ==
    [pickup_id |-> k, parent_id |-> refs.parent_id, child_id |-> refs.child_id,
     pickup_person_id |-> refs.pickup_person_id, status |-> s, timestamp |-> now]

\* the three references of a row
RefsOf(row) == Refs(row.parent_id, row.child_id, row.pickup_person_id)

Init ==
    /\ journeys = << >>
    /\ now = 1
    /\ resp = NoResponse
    /\ inflight = [w \in Workers |-> Idle]
    /\ mail = NoMail

\* The clock second changes.  A second in which no row was inserted cannot be
\* told from the one before it (the code only compares timestamps of rows), so
\* the clock is let on only from a second that some row carries.
Tick ==
    /\ now < MaxTime
    /\ \E i \in DOMAIN journeys : journeys[i].timestamp = now
    /\ now' = now + 1
    /\ UNCHANGED <<journeys, resp, inflight, mail>>

\* a variant in which mail.send runs inside the request and its exception
\* reaches log_error
send_email_in_request ==
    /\ mail.stage = "started"
    /\ mail' = [mail EXCEPT !.stage = "send_failed"]
    /\ resp' = Response("update_status", mail.pickup_id, mail.status, 500,
                        "Internal server error", None, None, 0)
    /\ UNCHANGED <<journeys, now, inflight>>

\* send_async_email (email_service.py 14-29), run by the thread that send_email
\* started: mail.send returns or raises; the exception is caught and logged
\* inside the thread.
send_async_email ==
    /\ mail.stage = "started"
    /\ \E sendOk \in BOOLEAN :
            mail' = [mail EXCEPT !.stage = IF sendOk THEN "sent" ELSE "send_failed"]
    /\ UNCHANGED <<journeys, now, resp, inflight>>

\* ---- create_journey (src/app.py 753-849) ----
\* Parent.query.filter_by(user_email=email).first(): the ids of the parents the
\* query may return; {0} stands for "no row"
ParentOfUser(email) ==
    IF \A id \in DOMAIN Parent : Parent[id].user_email # email THEN {0}
    ELSE {id \in DOMAIN Parent : Parent[id].user_email = email}

\* a variant that tests that the child exists but not whose child it is
CreateJourneyErrorAnyChild(req, parent_id, coordsOk, commitOk) ==
    IF parent_id = 0 THEN Response("create_journey", 0, None, 404, "Parent not found", None, None, 0)
    ELSE IF req.pickup_person_id = None \/ req.child_id = 0
         THEN Response("create_journey", 0, None, 400, "Pickup person ID and child ID are required", None, None, 0)
    ELSE IF req.child_id \notin DOMAIN Kid
         THEN Response("create_journey", 0, None, 404, "Child not found or unauthorized", None, None, 0)
    ELSE IF req.pickup_person_id \notin DOMAIN PickupPerson
         THEN Response("create_journey", 0, None, 404, "Pickup person not found", None, None, 0)
    ELSE IF ~coordsOk
         THEN Response("create_journey", 0, None, 500, "could not convert string to float", None, None, 0)
    ELSE IF ~commitOk
         THEN Response("create_journey", 0, None, 500, "commit failed", None, None, 0)
    ELSE NoResponse

\* The checks of the handler on the request req of a caller whose parent row
\* is parent_id.  coordsOk: float() takes the dropoff coordinates (if not, the
\* except branch answers 500); commitOk: db.session.commit() returns (if it
\* raises, the same except branch rolls back and answers 500).
CreateJourneyError(req, parent_id, coordsOk, commitOk) ==
    IF parent_id = 0 THEN Response("create_journey", 0, None, 404, "Parent not found", None, None, 0)
    ELSE IF req.pickup_person_id = None \/ req.child_id = 0
         THEN Response("create_journey", 0, None, 400, "Pickup person ID and child ID are required", None, None, 0)
    ELSE IF req.child_id \notin DOMAIN Kid \/ Kid[req.child_id].parent_id # parent_id
         THEN Response("create_journey", 0, None, 404, "Child not found or unauthorized", None, None, 0)
    ELSE IF req.pickup_person_id \notin DOMAIN PickupPerson
         THEN Response("create_journey", 0, None, 404, "Pickup person not found", None, None, 0)
    ELSE IF ~coordsOk
         THEN Response("create_journey", 0, None, 500, "could not convert string to float", None, None, 0)
    ELSE IF ~commitOk
         THEN Response("create_journey", 0, None, 500, "commit failed", None, None, 0)
    ELSE NoResponse

\* str(uuid.uuid4())[:8].upper(): a pickup_id no journey uses yet.  Pickup ids
\* are opaque, so the model numbers them in the order of their creation.
FreshPickupIds ==
    {k \in PickupIds : RowsOf(k) = {} /\ \A j \in PickupIds : j < k => RowsOf(j) # {}}

\* the outcomes of the handler's checks over all values of coordsOk and commitOk
CreateJourneyErrors(req, parent_id) ==
    {CreateJourneyError(req, parent_id, coordsOk, commitOk) :
        coordsOk \in BOOLEAN, commitOk \in BOOLEAN}

\* create_journey for one of the given requests; the handler sends no e-mail
CreateJourney(requests) ==
    \E req \in requests : \E parent_id \in ParentOfUser(req.caller) :
        \E err \in CreateJourneyErrors(req, parent_id) :
            IF err # NoResponse
            THEN /\ resp' = [err EXCEPT !.request = req]
                 /\ mail' = NoMail
                 /\ UNCHANGED <<journeys, now, inflight>>
            ELSE \E k \in FreshPickupIds :
                    /\ Len(journeys) < MaxEvents
                    /\ journeys' = Append(journeys,
                            PickupJourney(k, Refs(parent_id, req.child_id, req.pickup_person_id),
                                          "pending"))
                    /\ resp' = [Response("create_journey", k, "pending", 200, "", None, None, 0)
                                    EXCEPT !.request = req]
                    /\ mail' = NoMail
                    /\ UNCHANGED <<now, inflight>>

\* ---- update_status (src/app.py 234-433) ----
\* Lines 294-306 insert and commit outside any try: when the commit raises,
\* log_error (lines 124-132) answers 500 and the session, with its pending
\* row, is discarded at the end of the request.  Lines 308-430 send the
\* notification e-mail after the commit, inside a try/except; they read the
\* tables but never write them and do not change the response.
\* The checks of lines 270-288 on the status read from the latest entry e;
\* code 200 means that the request goes on to insert.
\* a variant whose sequence check looks only at the statuses of the table
UpdateStatusDecisionForKnown(k, new_status, e) ==
    LET previous_status == StatusOfEntry(e)
        expected_next == FlowGet(previous_status)
    IN  IF new_status = "cancelled" /\ previous_status = "completed"
        THEN Response("update_status", k, new_status, 400,
                      "Cannot cancel a completed journey", previous_status, None, 0)
        ELSE IF new_status # "cancelled" /\ previous_status \in FINAL_STATUSES
        THEN Response("update_status", k, new_status, 400,
                      "Cannot update status after journey is", previous_status, None, 0)
        ELSE IF new_status \in Statuses \ {"cancelled"} /\ expected_next # new_status
        THEN Response("update_status", k, new_status, 400,
                      "Invalid status transition", previous_status, expected_next, 0)
        ELSE IF RowsOf(k) = {}
        THEN Response("update_status", k, new_status, 404,
                      "Journey not found", None, None, 0)
        ELSE Response("update_status", k, new_status, 200, "", None, None, 0)

UpdateStatusDecision(k, new_status, e) ==
    LET previous_status == StatusOfEntry(e)
        expected_next == FlowGet(previous_status)
    IN  IF new_status = "cancelled" /\ previous_status = "completed"
        THEN Response("update_status", k, new_status, 400,
                      "Cannot cancel a completed journey", previous_status, None, 0)
        ELSE IF new_status # "cancelled" /\ previous_status \in FINAL_STATUSES
        THEN Response("update_status", k, new_status, 400,
                      "Cannot update status after journey is", previous_status, None, 0)
        ELSE IF new_status # "cancelled" /\ expected_next # new_status
        THEN Response("update_status", k, new_status, 400,
                      "Invalid status transition", previous_status, expected_next, 0)
        ELSE IF RowsOf(k) = {}
        THEN Response("update_status", k, new_status, 404,
                      "Journey not found", None, None, 0)
        ELSE Response("update_status", k, new_status, 200, "", None, None, 0)

MissingFields ==
    Response("update_status", 0, None, 400, "Missing pickup_id or status", None, None, 0)

\* the answer of log_error to an exception that update_status let through
log_error(k, new_status) ==
    Response("update_status", k, new_status, 500, "Internal server error", None, None, 0)

\* a variant that takes the references from the request body when it has them
RefsFromBody(existing_journey, data) ==
    IF data = NoRefs THEN RefsOf(existing_journey) ELSE data

\* Lines 294-303 (and 732-741 of record_departure): the new row takes its
\* three references from a row of the journey; those of the request body
\* (data) are never read.
InheritedRefs(existing_journey, data) == RefsOf(existing_journey)

\* PickupJourney.query.filter_by(pickup_id=k).first() of line 285, a query
\* without an order: any row of k.  For each row it may return and each body,
\* the references of the new row and the parent_id the notification looks up.
ExistingJourney(k) ==
    {[refs |-> InheritedRefs(journeys[x], data), parent_id |-> journeys[x].parent_id] :
        x \in RowsOf(k), data \in Bodies}

\* a variant of the handler that sends the e-mail before its checks
UpdateStatusNotifyingFirst ==
    \E present \in BOOLEAN :
        IF ~present
        THEN /\ resp' = MissingFields
             /\ mail' = NoMail
             /\ UNCHANGED <<journeys, now, inflight>>
        ELSE \E k \in PickupIds, new_status \in RequestStatuses : \E e \in LatestEntry(k) :
                /\ resp' = UpdateStatusDecision(k, new_status, e)
                /\ mail' \in Notifications(AdminEmail, k, new_status)
                /\ UNCHANGED <<journeys, now, inflight>>

\* commitOk: db.session.commit() of line 306 returns; lookupOk, haveEmail,
\* messageOk: see send_journey_status_notification; the body may carry any of
\* Bodies
UpdateStatus ==
    \E present \in BOOLEAN :
        IF ~present
        THEN /\ resp' = MissingFields
             /\ mail' = NoMail
             /\ UNCHANGED <<journeys, now, inflight>>
        ELSE \E k \in PickupIds, new_status \in RequestStatuses : \E e \in LatestEntry(k) :
                LET d == UpdateStatusDecision(k, new_status, e)
                IN  IF d.code # 200
                    THEN /\ resp' = d
                         /\ mail' = NoMail
                         /\ UNCHANGED <<journeys, now, inflight>>
                    ELSE \E commitOk \in BOOLEAN :
                            IF ~commitOk
                            THEN /\ resp' = log_error(k, new_status)
                                 /\ mail' = NoMail
                                 /\ UNCHANGED <<journeys, now, inflight>>
                            ELSE \E x \in ExistingJourney(k) :
                                 /\ Len(journeys) < MaxEvents
                                 /\ journeys' = Append(journeys,
                                        PickupJourney(k, x.refs, new_status))
                                 /\ resp' = d
                                 /\ mail' \in Notifications(NotificationParent(x.parent_id),
                                                            k, new_status)
                                 /\ UNCHANGED <<now, inflight>>

\* ---- record_departure (src/app.py 708-751) ----
\* The whole handler is inside a try: a commit that raises is answered 500 by
\* the except branch.  The new row takes its references from the latest entry
\* (lines 732-741).  The handler sends no e-mail.
RecordDepartureDecision(k, e) ==
    IF e = 0
    THEN Response("record_departure", k, "departed", 404, "Journey not found", None, None, 0)
    ELSE IF journeys[e].status # "pending"
    THEN Response("record_departure", k, "departed", 400,
                  "Can only record departure from pending status", None, None, 0)
    ELSE Response("record_departure", k, "departed", 200, "", None, None, 0)

RecordDepartureFailed(k) ==
    Response("record_departure", k, "departed", 500, "commit failed", None, None, 0)

\* a variant of the handler that rewrites the status of the row it read
RecordDepartureInPlace ==
    \E k \in PickupIds : \E e \in LatestEntry(k) :
        /\ RecordDepartureDecision(k, e).code = 200
        /\ journeys' = [journeys EXCEPT ![e].status = "departed"]
        /\ resp' = RecordDepartureDecision(k, e)
        /\ mail' = NoMail
        /\ UNCHANGED <<now, inflight>>

RecordDeparture ==
    \E present \in BOOLEAN :
        IF ~present
        THEN /\ resp' = Response("record_departure", 0, None, 400, "pickup_id is required", None, None, 0)
             /\ mail' = NoMail
             /\ UNCHANGED <<journeys, now, inflight>>
        ELSE \E k \in PickupIds : \E e \in LatestEntry(k) :
                LET d == RecordDepartureDecision(k, e)
                IN  IF d.code # 200
                    THEN /\ resp' = d
                         /\ mail' = NoMail
                         /\ UNCHANGED <<journeys, now, inflight>>
                    ELSE \E commitOk \in BOOLEAN :
                            IF ~commitOk
                            THEN /\ resp' = RecordDepartureFailed(k)
                                 /\ mail' = NoMail
                                 /\ UNCHANGED <<journeys, now, inflight>>
                            ELSE \E refs \in {InheritedRefs(journeys[e], data) : data \in Bodies} :
                                 /\ Len(journeys) < MaxEvents
                                 /\ journeys' = Append(journeys, PickupJourney(k, refs, "departed"))
                                 /\ resp' = d
                                 /\ mail' = NoMail
                                 /\ UNCHANGED <<now, inflight>>

\* ---- get_status (src/app.py 877-893) ----
GetStatus ==
    \E present \in BOOLEAN :
        IF ~present
        THEN /\ resp' = Response("get_status", 0, None, 400, "pickup_id is required", None, None, 0)
             /\ mail' = NoMail
             /\ UNCHANGED <<journeys, now, inflight>>
        ELSE \E k \in PickupIds : \E e \in LatestEntry(k) :
                /\ resp' = IF e = 0
                           THEN Response("get_status", k, None, 200, "", None, None, 0)
                           ELSE Response("get_status", k, journeys[e].status, 200, "", None, None,
                                         journeys[e].timestamp)
                /\ mail' = NoMail
                /\ UNCHANGED <<journeys, now, inflight>>

\* ---- get_all_journeys (src/app.py 895-923), get_user_journeys (925-961) ----
\* Both answer with one entry per pickup_id that has rows.  get_all_journeys
\* runs the latest-entry query for each distinct pickup_id; get_user_journeys
\* sorts all rows by timestamp descending and keeps, per pickup_id, the row it
\* meets first (a later row replaces it only with a greater timestamp, which
\* the sort order excludes): again one of the rows with the greatest timestamp.
\* The entries are kept as a set of (pickup_id, status, timestamp).
LatestJourneys ==
    LET ids == {k \in PickupIds : RowsOf(k) # {}}
    IN  {{[pickup_id |-> k, status |-> journeys[f[k]].status,
           timestamp |-> journeys[f[k]].timestamp] : k \in ids} :
            f \in {g \in [ids -> DOMAIN journeys] : \A k \in ids : g[k] \in LatestEntry(k)}}

JourneysResponse(op, rows) ==
    [Response(op, 0, None, 200, "", None, None, 0) EXCEPT !.journeys = rows]

\* queryOk: the queries return (if one raises, the except branch answers 500)
GetAllJourneys ==
    \E queryOk \in BOOLEAN :
        /\ IF queryOk
           THEN \E rows \in LatestJourneys : resp' = JourneysResponse("get_all_journeys", rows)
           ELSE resp' = Response("get_all_journeys", 0, None, 500, "query failed", None, None, 0)
        /\ mail' = NoMail
        /\ UNCHANGED <<journeys, now, inflight>>

GetUserJourneys ==
    \E queryOk \in BOOLEAN :
        /\ IF queryOk
           THEN \E rows \in LatestJourneys : resp' = JourneysResponse("get_user_journeys", rows)
           ELSE resp' = Response("get_user_journeys", 0, None, 500, "Internal server error",
                                 None, None, 0)
        /\ mail' = NoMail
        /\ UNCHANGED <<journeys, now, inflight>>

\* ---- get_journey_details (src/app.py 1782-1862) ----
\* The journey is read with filter_by(pickup_id=k).first(), without an order:
\* any row of k.  parentFound: a Parent row is linked to the caller; childFound,
\* authorized, personFound: the child of the row exists, belongs to that
\* parent, and the pickup person of the row exists; queryOk: no query raised.
GetJourneyDetailsError(k, queryOk, parentFound, childFound, authorized, personFound) ==
    IF ~queryOk THEN Response("get_journey_details", k, None, 500, "query failed", None, None, 0)
    ELSE IF ~parentFound
         THEN Response("get_journey_details", k, None, 404, "Parent not found", None, None, 0)
    ELSE IF RowsOf(k) = {}
         THEN Response("get_journey_details", k, None, 404, "Journey not found", None, None, 0)
    ELSE IF ~childFound
         THEN Response("get_journey_details", k, None, 404, "Child not found", None, None, 0)
    ELSE IF ~authorized
         THEN Response("get_journey_details", k, None, 403, "Unauthorized access to this journey",
                       None, None, 0)
    ELSE IF ~personFound
         THEN Response("get_journey_details", k, None, 404, "Pickup person not found", None, None, 0)
    ELSE NoResponse

GetJourneyDetailsErrors(k) ==
    {GetJourneyDetailsError(k, queryOk, parentFound, childFound, authorized, personFound) :
        queryOk \in BOOLEAN, parentFound \in BOOLEAN, childFound \in BOOLEAN,
        authorized \in BOOLEAN, personFound \in BOOLEAN}

GetJourneyDetails ==
    \E k \in PickupIds : \E err \in GetJourneyDetailsErrors(k) :
        /\ IF err # NoResponse
           THEN resp' = err
           ELSE \E e \in RowsOf(k) :
                    resp' = Response("get_journey_details", k, journeys[e].status, 200, "",
                                     None, None, journeys[e].timestamp)
        /\ mail' = NoMail
        /\ UNCHANGED <<journeys, now, inflight>>

Next ==
    \/ Tick
    \/ send_async_email
    \/ CreateJourney(OneFamily)
    \/ UpdateStatus
    \/ RecordDeparture
    \/ GetStatus

Spec == Init /\ [][Next]_vars

\* every handler of the journey table, the listing queries included, on a
\* table of at most MaxAllEvents rows
NextAll ==
    \/ Tick
    \/ send_async_email
    \/ (Len(journeys) < MaxAllEvents /\ CreateJourney(OneFamily))
    \/ (Len(journeys) < MaxAllEvents /\ UpdateStatus)
    \/ (Len(journeys) < MaxAllEvents /\ RecordDeparture)
    \/ GetStatus
    \/ GetAllJourneys
    \/ GetUserJourneys
    \/ GetJourneyDetails

SpecAll == Init /\ [][NextAll]_vars

\* ---- the same handlers, one thread per request (SpecConc) ----
\* update_status up to line 288: the queries and the checks.  A rejected
\* request is answered at once; an accepted one is left before line 294.
BeginUpdateStatus(w) ==
    /\ inflight[w].pc \in {"idle", "done"}
    /\ \E present \in BOOLEAN :
        IF ~present
        THEN /\ resp' = MissingFields
             /\ mail' = NoMail
             /\ inflight' = [inflight EXCEPT ![w] = Idle]
             /\ UNCHANGED <<journeys, now>>
        ELSE \E k \in PickupIds, new_status \in RequestStatuses : \E e \in LatestEntry(k) :
                LET d == UpdateStatusDecision(k, new_status, e)
                IN  IF d.code # 200
                    THEN /\ resp' = d
                         /\ mail' = NoMail
                         /\ inflight' = [inflight EXCEPT ![w] = Idle]
                         /\ UNCHANGED <<journeys, now>>
                    ELSE \E x \in ExistingJourney(k) :
                         /\ inflight' = [inflight EXCEPT
                                ![w] = Worker("commit", "update_status", k, new_status, e,
                                              x.refs, 0)]
                         /\ UNCHANGED <<journeys, now, resp, mail>>

\* a variant that sends the e-mail before the commit, which then raises
CommitUpdateStatusAfterNotifying(w) ==
    /\ inflight[w].pc = "commit"
    /\ inflight[w].op = "update_status"
    /\ LET r == inflight[w]
       IN  /\ mail' \in Notifications(NotificationParent(r.refs.parent_id),
                                      r.pickup_id, r.status)
           /\ resp' = log_error(r.pickup_id, r.status)
           /\ inflight' = [inflight EXCEPT ![w] = Idle]
    /\ UNCHANGED <<journeys, now>>

\* update_status lines 294-306: insert and commit; a commit that raises ends
\* the request with the answer of log_error
CommitUpdateStatus(w) ==
    /\ inflight[w].pc = "commit"
    /\ inflight[w].op = "update_status"
    /\ LET r == inflight[w]
       IN  \E commitOk \in BOOLEAN :
            IF ~commitOk
            THEN /\ resp' = log_error(r.pickup_id, r.status)
                 /\ mail' = NoMail
                 /\ inflight' = [inflight EXCEPT ![w] = Idle]
                 /\ UNCHANGED <<journeys, now>>
            ELSE /\ journeys' = Append(journeys, PickupJourney(r.pickup_id, r.refs, r.status))
                 /\ inflight' = [inflight EXCEPT ![w] =
                        Worker("notify", r.op, r.pickup_id, r.status, r.read, r.refs,
                               Len(journeys) + 1)]
                 /\ UNCHANGED <<now, resp, mail>>

\* update_status lines 308-433: the notification e-mail, then the answer
NotifyUpdateStatus(w) ==
    /\ inflight[w].pc = "notify"
    /\ LET r == inflight[w]
       IN  /\ mail' \in Notifications(NotificationParent(r.refs.parent_id),
                                      r.pickup_id, r.status)
           /\ resp' = Response("update_status", r.pickup_id, r.status, 200, "",
                               None, None, 0)
           /\ inflight' = [inflight EXCEPT ![w] =
                   Worker("done", r.op, r.pickup_id, r.status, r.read, r.refs, r.row)]
    /\ UNCHANGED <<journeys, now>>

\* record_departure up to line 729
BeginRecordDeparture(w) ==
    /\ inflight[w].pc \in {"idle", "done"}
    /\ \E present \in BOOLEAN :
        IF ~present
        THEN /\ resp' = Response("record_departure", 0, None, 400, "pickup_id is required",
                                 None, None, 0)
             /\ mail' = NoMail
             /\ inflight' = [inflight EXCEPT ![w] = Idle]
             /\ UNCHANGED <<journeys, now>>
        ELSE \E k \in PickupIds : \E e \in LatestEntry(k) :
                LET d == RecordDepartureDecision(k, e)
                IN  IF d.code # 200
                    THEN /\ resp' = d
                         /\ mail' = NoMail
                         /\ inflight' = [inflight EXCEPT ![w] = Idle]
                         /\ UNCHANGED <<journeys, now>>
                    ELSE \E refs \in {InheritedRefs(journeys[e], data) : data \in Bodies} :
                         /\ inflight' = [inflight EXCEPT
                                ![w] = Worker("commit", "record_departure", k, "departed", e,
                                              refs, 0)]
                         /\ UNCHANGED <<journeys, now, resp, mail>>

\* record_departure from line 731: insert, commit, answer
CommitRecordDeparture(w) ==
    /\ inflight[w].pc = "commit"
    /\ inflight[w].op = "record_departure"
    /\ LET r == inflight[w]
       IN  \E commitOk \in BOOLEAN :
            IF ~commitOk
            THEN /\ resp' = RecordDepartureFailed(r.pickup_id)
                 /\ mail' = NoMail
                 /\ inflight' = [inflight EXCEPT ![w] = Idle]
                 /\ UNCHANGED <<journeys, now>>
            ELSE /\ journeys' = Append(journeys, PickupJourney(r.pickup_id, r.refs, "departed"))
                 /\ resp' = Response("record_departure", r.pickup_id, "departed", 200, "",
                                     None, None, 0)
                 /\ mail' = NoMail
                 /\ inflight' = [inflight EXCEPT ![w] =
                        Worker("done", r.op, r.pickup_id, "departed", r.read, r.refs,
                               Len(journeys) + 1)]
                 /\ UNCHANGED now

NextConc ==
    \/ Tick
    \/ send_async_email
    \/ (Len(journeys) < MaxConcEvents /\ CreateJourney(OneFamily))
    \/ GetStatus
    \/ \E w \in Workers : BeginUpdateStatus(w)
    \/ \E w \in Workers : Len(journeys) < MaxConcEvents /\ CommitUpdateStatus(w)
    \/ \E w \in Workers : NotifyUpdateStatus(w)
    \/ \E w \in Workers : BeginRecordDeparture(w)
    \/ \E w \in Workers : Len(journeys) < MaxConcEvents /\ CommitRecordDeparture(w)

SpecConc == Init /\ [][NextConc]_vars

\* ---- two threads on one journey (SpecRace) ----
\* The runs of the threaded handlers in which one journey is created and lives
\* through up to MaxRaceEvents events: update_status requests whose query
\* returns the event inserted last and that pass their checks, commit and are
\* answered with a started notification.  Requests that are rejected, and the
\* other handlers, change nothing in the table and are left out.
NextRace ==
    \/ (now < MaxRaceTime /\ Tick)
    \/ (journeys = << >> /\ CreateJourney(OneFamily) /\ journeys' # journeys)
    \/ \E w \in Workers :
            /\ BeginUpdateStatus(w)
            /\ inflight'[w].pc = "commit"
            /\ inflight'[w].read = Len(journeys)
    \/ \E w \in Workers :
            Len(journeys) < MaxRaceEvents /\ CommitUpdateStatus(w) /\ journeys' # journeys
    \/ \E w \in Workers : NotifyUpdateStatus(w) /\ mail'.stage = "started"

SpecRace == Init /\ [][NextRace]_vars

\* ---- every family (SpecParties) ----
\* The state-changing handlers with create_journey taking every request of
\* CreateRequests, on a table of at most MaxPartyEvents rows.
NextParties ==
    \/ Tick
    \/ send_async_email
    \/ (Len(journeys) < MaxPartyEvents /\ CreateJourney(CreateRequests))
    \/ (Len(journeys) < MaxPartyEvents /\ UpdateStatus)
    \/ (Len(journeys) < MaxPartyEvents /\ RecordDeparture)
    \/ GetStatus

SpecParties == Init /\ [][NextParties]_vars

\* ======================= properties =======================

Max(S) == CHOOSE x \in S : \A y \in S : y <= x

\* The current status of a journey: the status of the event recorded last for
\* its pickup_id (latest timestamp, equal timestamps ordered by insertion);
\* None for a pickup_id without events.
CurrentStatus(k) == IF RowsOf(k) = {} THEN None ELSE journeys[Max(RowsOf(k))].status

\* The statuses of the events of pickup_id k, in insertion order
RECURSIVE StatusesFrom(_, _)
StatusesFrom(k, i) ==
    IF i > Len(journeys) THEN << >>
    ELSE IF journeys[i].pickup_id = k
         THEN <<journeys[i].status>> \o StatusesFrom(k, i + 1)
         ELSE StatusesFrom(k, i + 1)

History(k) == StatusesFrom(k, 1)

Path == <<"pending", "departed", "picked", "arrived", "completed">>

IsPathPrefix(h) == Len(h) <= Len(Path) /\ \A i \in 1..Len(h) : h[i] = Path[i]

NonTerminal == {"pending", "departed", "picked", "arrived"}

\* a step that answers a request: not a clock tick, not the e-mail thread
RequestStep ==
    /\ now' = now
    /\ ~(mail.stage = "started" /\ mail'.stage \in {"sent", "send_failed"})

\* a step in which update_status handles a request for (k, s)
UpdateStep(k, s) ==
    /\ RequestStep
    /\ resp'.op = "update_status"
    /\ resp'.pickup_id = k
    /\ resp'.status = s

\* the step appends exactly the one event (k, s), stamped with the clock
AppendsEvent(k, s) ==
    /\ Len(journeys') = Len(journeys) + 1
    /\ SubSeq(journeys', 1, Len(journeys)) = journeys
    /\ journeys'[Len(journeys')].pickup_id = k
    /\ journeys'[Len(journeys')].status = s
    /\ journeys'[Len(journeys')].timestamp = now

\* no two events of pickup_id k carry the same timestamp, so every query for
\* the latest entry of k had one answer
DistinctTimestamps(k) ==
    \A i, j \in RowsOf(k) : i # j => journeys[i].timestamp # journeys[j].timestamp

\* C1: for every pickup_id the statuses of its events, in insertion order, are a
\* prefix of pending, departed, picked, arrived, completed, optionally followed
\* by one final cancelled that directly follows a non-terminal status.  Stated
\* here for the journeys whose events all carry different timestamps.
C1_HistoryIsPathPrefix ==
    \A k \in PickupIds :
        LET h == History(k)
            n == Len(h)
        IN  \/ ~DistinctTimestamps(k)
            \/ IsPathPrefix(h)
            \/ /\ n >= 2
               /\ h[n] = "cancelled"
               /\ IsPathPrefix(SubSeq(h, 1, n - 1))
               /\ h[n - 1] \in NonTerminal

\* C2: two interleaved state-changing requests for one pickup_id never both read
\* the same latest event and both commit.  The two inserted rows are required
\* to be younger than the row read, so a violation is two requests that
\* overlapped, not two requests that met equal timestamps one after the other.
C2_NoTwoCommitsFromOneRead ==
    \A w1, w2 \in Workers :
        ~ /\ w1 # w2
          /\ inflight[w1].pc = "done"
          /\ inflight[w2].pc = "done"
          /\ inflight[w1].pickup_id = inflight[w2].pickup_id
          /\ inflight[w1].read = inflight[w2].read
          /\ inflight[w1].read # 0
          /\ journeys[inflight[w1].read].timestamp < journeys[inflight[w1].row].timestamp
          /\ journeys[inflight[w2].read].timestamp < journeys[inflight[w2].row].timestamp

\* C3: once the current status of a pickup_id is completed, update_status
\* rejects every request for it, whatever the requested status, and
\* record_departure rejects it too: no read of the latest event leads the
\* handlers past their checks.
C3_CompletedIsFinal ==
    \A k \in PickupIds :
        CurrentStatus(k) = "completed" =>
            \A e \in LatestEntry(k) :
                /\ \A s \in RequestStatuses : UpdateStatusDecision(k, s, e).code # 200
                /\ RecordDepartureDecision(k, e).code # 200

\* C4: once the current status of a pickup_id is cancelled, no update_status
\* request for it is accepted and no event is appended for it.  Stated here
\* for the journeys whose events all carry different timestamps.
C4_CancelledIsFinal ==
    [][\A k \in PickupIds, s \in RequestStatuses :
            (CurrentStatus(k) = "cancelled" /\ DistinctTimestamps(k) /\ UpdateStep(k, s)) =>
                (resp'.code # 200 /\ journeys' = journeys)]_vars

\* the step answers an update_status request for (k, s) with success and
\* appends its event, or the commit failed and log_error answered
AcceptsOrStorageFails(k, s) ==
    \/ resp'.code = 200 /\ AppendsEvent(k, s)
    \/ resp' = log_error(k, s) /\ journeys' = journeys

\* C5: at a non-terminal current status c, update_status accepts a request for
\* r other than cancelled (appending the one event r) exactly if r is the
\* successor of c in the table.
C5_OnlySuccessorAccepted ==
    [][\A k \in PickupIds, r \in RequestStatuses \ {"cancelled"} :
            (CurrentStatus(k) \in NonTerminal /\ UpdateStep(k, r)) =>
                IF r = SEQUENTIAL_STATUS_FLOW[CurrentStatus(k)]
                THEN AcceptsOrStorageFails(k, r)
                ELSE resp'.code # 200 /\ journeys' = journeys]_vars

\* a step in which get_status answers for pickup_id k
GetStatusStep(k) ==
    /\ RequestStep
    /\ resp'.op = "get_status"
    /\ resp'.code = 200
    /\ resp'.pickup_id = k

\* C6: at a non-terminal current status, update_status with cancelled is
\* accepted and appends exactly one cancelled event, and get_status then
\* reports cancelled.
C6_CancelAccepted ==
    [][\A k \in PickupIds :
            /\ (CurrentStatus(k) \in NonTerminal /\ UpdateStep(k, "cancelled")) =>
                    AcceptsOrStorageFails(k, "cancelled")
            /\ (CurrentStatus(k) = "cancelled" /\ GetStatusStep(k)) =>
                    resp'.status = "cancelled"]_vars

\* C7: for a pickup_id without events, update_status with pending succeeds and
\* appends exactly one pending event.
C7_FirstPendingAccepted ==
    [][\A k \in PickupIds :
            (RowsOf(k) = {} /\ UpdateStep(k, "pending")) =>
                (resp'.code = 200 /\ AppendsEvent(k, "pending"))]_vars

\* a step that answers a state-changing request with success
AcceptedStep ==
    /\ RequestStep
    /\ resp'.op \in {"create_journey", "update_status", "record_departure"}
    /\ resp'.code = 200

\* C8: every accepted transition adds exactly one event to its pickup_id and no
\* other step adds any, so N accepted transitions leave N events; and
\* get_status returns the status of the transition accepted last, also when
\* consecutive events carry the same timestamp.
C8_StatusOfLastTransition ==
    [][/\ IF AcceptedStep /\ journeys' # journeys
          THEN AppendsEvent(resp'.pickup_id, resp'.status)
          ELSE journeys' = journeys
       /\ \A k \in PickupIds :
            GetStatusStep(k) => resp'.status = CurrentStatus(k)]_vars

\* the response rejects an update_status request as an illegal transition
IllegalTransition(r) ==
    /\ r.op = "update_status"
    /\ r.code = 400
    /\ r.error \in {"Cannot cancel a completed journey",
                    "Cannot update status after journey is",
                    "Invalid status transition"}

\* C9: a (pickup_id, status) pair that update_status has just rejected as an
\* illegal transition, submitted again with no request in between, gets the
\* same error response and appends nothing.
C9_RejectionRepeats ==
    [][(IllegalTransition(resp) /\ UpdateStep(resp.pickup_id, resp.status)) =>
            (resp' = resp /\ journeys' = journeys)]_vars

\* C10: when update_status rejects a request because the requested status is
\* not the successor of the current one, the error names one status, and a
\* request for that status, submitted next for the same pickup_id, is accepted.
C10_ExpectedNextIsAccepted ==
    [][(resp.op = "update_status" /\ resp.error = "Invalid status transition") =>
            /\ resp.expected \in Statuses
            /\ UpdateStep(resp.pickup_id, resp.expected) =>
                    AcceptsOrStorageFails(resp.pickup_id, resp.expected)]_vars

\* the error texts of update_status (lines 257, 272, 277, 283, 288) and of
\* log_error
UpdateStatusErrors ==
    {"Missing pickup_id or status", "Cannot cancel a completed journey",
     "Cannot update status after journey is", "Invalid status transition",
     "Journey not found", "Internal server error"}

\* C11: every error response of update_status leaves the event log unchanged
\* and sends no notification; a request without pickup_id or status is
\* answered "Missing pickup_id or status" whatever the table holds, with
\* nothing read from it.
C11_ErrorsChangeNothing ==
    [][/\ (RequestStep /\ resp'.op = "update_status" /\ resp'.code # 200) =>
            /\ journeys' = journeys
            /\ mail' = NoMail
            /\ resp'.error \in UpdateStatusErrors
            /\ resp'.error = "Missing pickup_id or status" => resp' = MissingFields
       /\ ENABLED (UpdateStatus /\ resp' = MissingFields)]_vars

\* update_status has refused to cancel a completed journey: the five events
\* are all there is, and nothing was sent
C11_Witness ==
    /\ resp.op = "update_status"
    /\ resp.error = "Cannot cancel a completed journey"
    /\ mail = NoMail
    /\ \E k \in PickupIds : History(k) = Path

\* the handlers that only read the table
ReadOnlyOps == {"get_status", "get_all_journeys", "get_user_journeys", "get_journey_details"}

\* C12: the event log is append-only.  No step deletes, rewrites or reorders
\* an event: a step leaves the table as it is or adds one row at its end; and
\* get_status, the two listings and get_journey_details add none.
C12_AppendOnly ==
    [][/\ \/ journeys' = journeys
          \/ /\ Len(journeys') = Len(journeys) + 1
             /\ SubSeq(journeys', 1, Len(journeys)) = journeys
       /\ (RequestStep /\ resp'.op \in ReadOnlyOps) => journeys' = journeys]_vars

\* a journey was created, departed, and cancelled, and get_journey_details
\* has then answered for it
C12_Witness ==
    /\ resp.op = "get_journey_details"
    /\ resp.code = 200
    /\ \E k \in PickupIds : History(k) = <<"pending", "departed", "cancelled">>

\* C13: get_status never changes the event log; for a pickup_id without
\* events it answers with status none, and for any other pickup_id with the
\* status of the latest event of that pickup_id.
C13_GetStatusReadsLatest ==
    [][\A k \in PickupIds :
            GetStatusStep(k) =>
                /\ journeys' = journeys
                /\ RowsOf(k) = {} => resp'.status = None
                /\ RowsOf(k) # {} => resp'.status = journeys[Max(RowsOf(k))].status]_vars

\* the part of C13 that does not depend on which event is the latest
C13_FrameAndNone ==
    [][\A k \in PickupIds :
            GetStatusStep(k) =>
                /\ journeys' = journeys
                /\ RowsOf(k) = {} => resp'.status = None
                /\ RowsOf(k) # {} => \E i \in RowsOf(k) : resp'.status = journeys[i].status]_vars

\* the stages at which a notification has failed
NotificationFailures == {"lookup_failed", "missing_data", "message_failed", "send_failed"}

\* C14: when the notification of an accepted update_status fails (a lookup
\* raises, the message cannot be built, or mail.send raises in the thread),
\* the event of that request is in the log, as its last row, and the answer
\* of the request is the success response.
C14_FailedNotificationKeepsEvent ==
    mail.stage \in NotificationFailures =>
        /\ resp = Response("update_status", mail.pickup_id, mail.status, 200, "", None, None, 0)
        /\ journeys # << >>
        /\ journeys[Len(journeys)].pickup_id = mail.pickup_id
        /\ journeys[Len(journeys)].status = mail.status

\* mail.send has raised inside the thread for the notification of a picked event
C14_Witness ==
    /\ mail.stage = "send_failed"
    /\ mail.status = "picked"
    /\ resp.code = 200
    /\ \E k \in PickupIds : History(k) = <<"pending", "departed", "picked">>

\* C15: every accepted status transition, recorded through update_status or
\* through record_departure, makes the handler send a notification for the
\* new status of that pickup_id (whether or not the sending then succeeds).
C15_AcceptedTransitionNotifies ==
    [][(AcceptedStep /\ resp'.op \in {"update_status", "record_departure"}) =>
            /\ mail'.stage # "none"
            /\ mail'.pickup_id = resp'.pickup_id
            /\ mail'.status = resp'.status]_vars

\* C16: when the commit of update_status fails, no event is stored, no
\* notification is sent and the caller gets an error; and the same request,
\* submitted again as the next request, is accepted and appends its event
\* (unless its commit fails again).
C16_RetryAfterCommitFailure ==
    [][\A k \in PickupIds, s \in RequestStatuses :
            /\ (RequestStep /\ resp' = log_error(k, s)) =>
                    (journeys' = journeys /\ mail' = NoMail /\ resp'.code = 500)
            /\ (resp = log_error(k, s) /\ UpdateStep(k, s)) =>
                    AcceptsOrStorageFails(k, s)]_vars

\* the part of C16 about the failed request itself
C16_FailureLeavesNoTrace ==
    [][\A k \in PickupIds, s \in RequestStatuses :
            (RequestStep /\ resp' = log_error(k, s)) =>
                /\ journeys' = journeys
                /\ mail' = NoMail
                /\ \E e \in LatestEntry(k) : UpdateStatusDecision(k, s, e).code = 200]_vars

\* the rows of pickup_id k in table j, in insertion order
EventsOf(j, k) == SelectSeq(j, LAMBDA r : r.pickup_id = k)

\* the answers that the checks of update_status can give to a request (k, s),
\* and those of record_departure to a request for k, in the current state
Outcomes(k, s) == {UpdateStatusDecision(k, s, e) : e \in LatestEntry(k)}

DepartureOutcomes(k) == {RecordDepartureDecision(k, e) : e \in LatestEntry(k)}

\* the step commits the insert of a state-changing request for pickup_id k
CommitsFor(k) ==
    \/ \E w \in Workers :
            /\ inflight[w].pc = "commit"
            /\ inflight[w].pickup_id = k
            /\ inflight'[w].pc \in {"notify", "done"}
            /\ journeys' = Append(journeys, PickupJourney(k, inflight[w].refs, inflight[w].status))
    \/ /\ resp'.op = "create_journey"
       /\ resp'.pickup_id = k
       /\ AppendsEvent(k, "pending")

\* C17: requests for different pickup_ids are independent.  The events of a
\* pickup_id a change only by the commit of a request for a, which adds its
\* one event; and every step that leaves the events of a alone, whatever it
\* does for other pickup_ids and wherever it falls between the read and the
\* commit of a request for a, leaves unchanged the outcomes (accepted or
\* rejected, and with which answer) open to requests for a.  The outcomes
\* are read off the table, so only the steps that change the table matter.
C17_PickupIdsIndependent ==
    [][journeys' # journeys =>
        \A a \in PickupIds :
            IF EventsOf(journeys', a) # EventsOf(journeys, a)
            THEN CommitsFor(a)
            ELSE /\ \A s \in RequestStatuses : Outcomes(a, s)' = Outcomes(a, s)
                 /\ DepartureOutcomes(a)' = DepartureOutcomes(a)]_vars

\* a request for pickup_id 1 has read its pending event and waits to commit
\* while pickup_id 2 has been created and moved on to departed
C17_Witness ==
    /\ \E w \in Workers :
            /\ inflight[w].pc = "commit"
            /\ inflight[w].pickup_id = 1
            /\ inflight[w].read = 1
    /\ History(1) = <<"pending">>
    /\ History(2) = <<"pending", "departed">>

\* C18: a journey created by create_journey whose events so far are the first
\* n of pending, departed, picked, arrived, completed (1 <= n <= 4) has the
\* update_status request for the next status of that sequence accepted, with
\* that one event appended; after the fourth such request its five events end
\* with completed.
C18_FullFlowAccepted ==
    [][\A k \in PickupIds :
            LET h == History(k)
            IN  (/\ Len(h) \in 1..4
                 /\ IsPathPrefix(h)
                 /\ UpdateStep(k, Path[Len(h) + 1])) =>
                    /\ AcceptsOrStorageFails(k, Path[Len(h) + 1])
                    /\ (Len(h) = 4 /\ resp'.code = 200) =>
                            journeys'[Len(journeys')].status = "completed"]_vars

\* C19: under any interleaving of concurrent update_status requests for one
\* pickup_id, no cancelled event is committed after a completed event of that
\* pickup_id.  Stated here for a cancel request that read the event directly
\* before the completed one, older than it by its timestamp: such a request
\* made its read before the completed event was committed, so the two
\* requests overlapped.
C19_NoCancelAfterCompleted ==
    \A w \in Workers :
        ~ /\ inflight[w].pc \in {"notify", "done"}
          /\ inflight[w].status = "cancelled"
          /\ \E c \in RowsOf(inflight[w].pickup_id) :
                /\ journeys[c].status = "completed"
                /\ c < inflight[w].row
                /\ inflight[w].read # 0
                /\ inflight[w].read < c
                /\ \A i \in RowsOf(inflight[w].pickup_id) : ~(inflight[w].read < i /\ i < c)
                /\ journeys[inflight[w].read].timestamp < journeys[c].timestamp

\* C20: a notification for status s of pickup_id k is sent only after an
\* event (k, s) has been committed: whenever a notification exists, at
\* whatever stage, the log holds an event with its pickup_id and status.
C20_NotificationAfterCommit ==
    mail.stage # "none" =>
        \E i \in RowsOf(mail.pickup_id) : journeys[i].status = mail.status

\* the notification of a departed event has been handed to its thread while
\* the other worker thread has read for a request it has not yet committed
C20_Witness ==
    /\ mail.stage = "started"
    /\ mail.status = "departed"
    /\ \E w \in Workers : inflight[w].pc = "commit"
    /\ \E w \in Workers : inflight[w].pc = "done" /\ inflight[w].status = "departed"

\* the send of the notification has been attempted: mail.send was called in
\* the thread and has returned or raised
Attempted(m) == m.stage \in {"sent", "send_failed"}

\* C21: for two transitions of one pickup_id recorded one after the other,
\* the mail send of the earlier one is attempted before the mail send of the
\* later one.  So no update_status request hands the e-mail of its event to
\* a thread at a moment when the send for the next event of the same
\* pickup_id has already been attempted.  The later request is one that read
\* the earlier event as the latest entry: it began after the earlier one was
\* committed.
C21_SendsInRecordingOrder ==
    [][\A w1, w2 \in Workers :
        ~ /\ inflight[w1].pc = "notify"
          /\ inflight[w2].pc = "done"
          /\ inflight[w2].op = "update_status"
          /\ inflight[w1].pickup_id = inflight[w2].pickup_id
          /\ inflight[w2].read = inflight[w1].row
          /\ Attempted(mail)
          /\ mail.pickup_id = inflight[w2].pickup_id
          /\ mail.status = inflight[w2].status
          /\ \A i \in RowsOf(mail.pickup_id) :
                journeys[i].status = mail.status => i = inflight[w2].row
          /\ inflight'[w1].pc = "done"
          /\ mail' = Mail(mail.to, inflight[w1].pickup_id, inflight[w1].status, "started")]_vars

\* C22: update_status does not wait for the mail send.  The step that accepts
\* a transition answers with success while the send of its e-mail has not
\* been attempted (the thread, if one was started, has not run); the thread's
\* later step changes neither that answer nor the log; and while the thread
\* has not finished, the answer already given is the success response.
C22_ResponseDoesNotAwaitSend ==
    [][/\ (AcceptedStep /\ resp'.op = "update_status") =>
            /\ mail'.stage # "none"
            /\ ~Attempted(mail')
       /\ (mail.stage = "started" /\ Attempted(mail')) =>
            /\ resp' = resp
            /\ journeys' = journeys
       /\ mail'.stage = "started" =>
            resp' = Response("update_status", mail'.pickup_id, mail'.status, 200, "",
                             None, None, 0)]_vars

\* the request that completed a journey has been answered while the thread
\* of its e-mail has not run
C22_Witness ==
    /\ mail.stage = "started"
    /\ mail.status = "completed"
    /\ resp.op = "update_status"
    /\ resp.code = 200
    /\ \E k \in PickupIds : History(k) = Path

\* the first event of pickup_id k: the one create_journey stored
FirstEvent(k) == journeys[CHOOSE i \in RowsOf(k) : \A j \in RowsOf(k) : i <= j]

\* the guardian of journey k: the e-mail of the user account linked to the
\* parent under which the journey was created
Guardian(k) == Parent[FirstEvent(k).parent_id].user_email

\* C23: the notification for a transition of a journey is addressed to the
\* guardian of that journey and to no other account.
C23_NotificationToGuardian ==
    mail.to # None => mail.to = Guardian(mail.pickup_id)

C25_KnownStatusesOnly ==
    [][/\ \A i \in DOMAIN journeys' : journeys'[i].status \in Statuses
       /\ \A k \in PickupIds, s \in RequestStatuses \ Statuses :
            UpdateStep(k, s) => (resp'.code # 200 /\ journeys' = journeys)]_vars

\* a request for the status delayed has been rejected on a journey that has
\* arrived
C25_Witness ==
    /\ resp.op = "update_status"
    /\ resp.status = "delayed"
    /\ resp.error = "Invalid status transition"
    /\ resp.previous = "arrived"
    /\ CurrentStatus(resp.pickup_id) = "arrived"

\* C26: for a pickup_id with events, the status and timestamp that
\* get_journey_details returns to the authorised parent are those of the
\* event with the latest timestamp, which are what get_status returns.
\* Stated here for the journeys whose events all carry different timestamps,
\* where that event is the one recorded last and get_status has one answer.
C26_DetailsReportCurrentStatus ==
    [][\A k \in PickupIds :
            (/\ RequestStep
             /\ resp'.op = "get_journey_details"
             /\ resp'.code = 200
             /\ resp'.pickup_id = k
             /\ DistinctTimestamps(k)) =>
                /\ resp'.status = CurrentStatus(k)
                /\ resp'.timestamp = journeys[Max(RowsOf(k))].timestamp
                /\ \A e \in LatestEntry(k) : resp'.status = journeys[e].status]_vars

\* the pickup person with the given uuid is registered for the child and is
\* active
AuthorisedEscort(pickup_person_id, child_id) ==
    /\ pickup_person_id \in DOMAIN PickupPerson
    /\ PickupPerson[pickup_person_id].kid_id = child_id
    /\ PickupPerson[pickup_person_id].is_active

\* C27: every journey that create_journey creates names a pickup person who
\* is registered for the journey's child and active; a request naming any
\* other pickup person creates no event.
C27_EscortAuthorised ==
    \A k \in PickupIds :
        RowsOf(k) # {} =>
            AuthorisedEscort(FirstEvent(k).pickup_person_id, FirstEvent(k).child_id)

\* the parents linked to the caller of the request under which the request
\* names a child of theirs and an existing pickup person
CreatingParents(req) ==
    {p \in DOMAIN Parent :
        /\ Parent[p].user_email = req.caller
        /\ req.child_id # 0
        /\ req.pickup_person_id # None
        /\ req.child_id \in DOMAIN Kid
        /\ Kid[req.child_id].parent_id = p
        /\ req.pickup_person_id \in DOMAIN PickupPerson}

\* C28: create_journey appends an event only when the caller is linked to a
\* Parent record, pickup_person_id and child_id are both supplied, the child
\* exists and belongs to that parent, and a pickup person with the given uuid
\* exists; it then appends exactly one event, with status pending and the
\* references of the request.  In every other case it answers with an error
\* and leaves the log unchanged.
C28_CreateJourneyChecks ==
    [][(RequestStep /\ resp'.op = "create_journey") =>
            LET req == resp'.request
            IN  IF resp'.code = 200
                THEN /\ AppendsEvent(resp'.pickup_id, "pending")
                     /\ RowsOf(resp'.pickup_id) = {}
                     /\ \E p \in CreatingParents(req) :
                            RefsOf(journeys'[Len(journeys')]) =
                                Refs(p, req.child_id, req.pickup_person_id)
                ELSE /\ journeys' = journeys
                     /\ resp'.code \in {400, 404, 500}
                     /\ resp'.error # ""]_vars

\* the user linked to parent 2 has created the second journey
C28_Witness ==
    /\ resp.op = "create_journey"
    /\ resp.code = 200
    /\ resp.request.caller = "esi@kidmate"
    /\ resp.pickup_id = 2
    /\ Len(journeys) = 2

\* a step in which record_departure, or update_status with status departed,
\* handles a request for pickup_id k
DepartureStep(k) ==
    /\ RequestStep
    /\ resp'.pickup_id = k
    /\ \/ resp'.op = "record_departure"
       \/ resp'.op = "update_status" /\ resp'.status = "departed"

\* C29: record_departure changes the log exactly as update_status with
\* status departed does.  At the current status pending both append one
\* departed event that carries the references of the journey (unless the
\* commit fails); for a pickup_id without events or at any other current
\* status both append nothing.
C29_DepartureLikeUpdateStatus ==
    [][\A k \in PickupIds :
            DepartureStep(k) =>
                IF CurrentStatus(k) = "pending"
                THEN \/ /\ resp'.code = 200
                        /\ AppendsEvent(k, "departed")
                        /\ RefsOf(journeys'[Len(journeys')]) = RefsOf(FirstEvent(k))
                     \/ resp'.code = 500 /\ journeys' = journeys
                ELSE resp'.code # 200 /\ journeys' = journeys]_vars

\* the part of C29 that does not depend on which event is the latest: on
\* the same row read, the two handlers take the same decision
C29_SameDecisionPerRead ==
    \A k \in PickupIds : \A e \in LatestEntry(k) :
        RecordDepartureDecision(k, e).code = 200
            <=> UpdateStatusDecision(k, "departed", e).code = 200

\* C29 for the journeys whose events all carry different timestamps
C29_WithDistinctTimestamps ==
    [][\A k \in PickupIds :
            (DepartureStep(k) /\ DistinctTimestamps(k)) =>
                IF CurrentStatus(k) = "pending"
                THEN \/ /\ resp'.code = 200
                        /\ AppendsEvent(k, "departed")
                        /\ RefsOf(journeys'[Len(journeys')]) = RefsOf(FirstEvent(k))
                     \/ resp'.code = 500 /\ journeys' = journeys
                ELSE resp'.code # 200 /\ journeys' = journeys]_vars

\* a step in which one of the two listing handlers answers with its list
ListingStep ==
    /\ RequestStep
    /\ resp'.op \in {"get_all_journeys", "get_user_journeys"}
    /\ resp'.code = 200

\* one entry for every pickup_id that has events, with the status and the
\* timestamp of its current status
CurrentJourneys ==
    {[pickup_id |-> k, status |-> CurrentStatus(k),
      timestamp |-> journeys[Max(RowsOf(k))].timestamp] :
        k \in {j \in PickupIds : RowsOf(j) # {}}}

\* C30: get_all_journeys and get_user_journeys each list every pickup_id
\* that has events exactly once, with the status and timestamp of its
\* current status, which are what get_status reports for it; so the two
\* listings agree with each other.
C30_ListingsReportCurrentStatus ==
    [][ListingStep =>
            /\ resp'.journeys = CurrentJourneys
            /\ \A k \in PickupIds : \A e \in LatestEntry(k) : \A j \in resp'.journeys :
                    j.pickup_id = k =>
                        (j.status = journeys[e].status /\ j.timestamp = journeys[e].timestamp)]_vars

\* C30 for the tables in which the events of each journey all carry
\* different timestamps
C30_WithDistinctTimestamps ==
    [][(ListingStep /\ \A k \in PickupIds : DistinctTimestamps(k)) =>
            resp'.journeys = CurrentJourneys]_vars

====
